---- MODULE Spec2Model ----
(***************************************************************************)
(* kubernoisy: a rate scheduler that launches one churn cycle per ticker   *)
(* tick.  Two builds of main() are in the repository: the service and      *)
(* endpoints build (src/main.go, integer -ops) and the pod and service     *)
(* build (src/unnamed/part_001, float -ops).  The variable "variant"       *)
(* selects the build; everything else is the state of one process.  The    *)
(* goroutines are anonymous: the live ones are a bag of their locals.      *)
(*                                                                         *)
(* Time inside a verification loop is counted in whole seconds since the   *)
(* loop's "start := time.Now()"; it advances only in net.LookupIP and in   *)
(* time.Sleep.  A goroutine step runs from the return of one blocking call *)
(* to the next blocking call.                                              *)
(*                                                                         *)
(* The API server and the resolver are the environment.  A run fixes how   *)
(* they behave: the errors the API may return for each call ("stub"),      *)
(* whether it keeps the objects it is given ("store", "cluster"), and the  *)
(* answers the resolver may give ("oracle").  A stub that answers anything *)
(* shows the program every reply an API server that keeps its objects can  *)
(* give, and a resolver that answers anything every answer of one that     *)
(* serves those objects.                                                   *)
(***************************************************************************)
EXTENDS Integers, Sequences, FiniteSets, Bags, TLC

\* ------------------------------------------------------------ bounds
MaxCycles == 2          \* cycles the scheduler launches in a run
MaxTimeout == 2         \* largest -timeout given, in seconds
MaxLatency == 1         \* longest net.LookupIP call, in seconds

\* ------------------------------------------------- program constants
Second == 1000000000    \* time.Second, in nanoseconds (time.Duration)
SleepSeconds == 1       \* time.Sleep(time.Second) in the poll loops

Variants == {"svc", "pod"}
Timeouts == (0 - 1)..MaxTimeout

\* -ops as a fraction num/den; the integer build only parses den = 1.
OpsInt == {[num |-> n, den |-> 1] : n \in {0 - 1, 0, 1, 3, Second + 1}}
DefaultOps == [num |-> 1, den |-> 1]
OpsFloat == {[num |-> 0 - 1, den |-> 2], [num |-> 0, den |-> 1], [num |-> 1, den |-> 1],
             [num |-> 2, den |-> 1], [num |-> 1, den |-> 2], [num |-> 2, den |-> 3]}

\* What net.LookupIP returns: an error text and the addresses.
NoErr == "nil"
ip == "1.2.3.4"
LookupResults ==
    { [err |-> NoErr, ips |-> <<ip>>],
      [err |-> NoErr, ips |-> <<"5.6.7.8">>],
      [err |-> NoErr, ips |-> <<>>],
      [err |-> "no such host", ips |-> <<>>],
      [err |-> "i/o timeout", ips |-> <<>>] }
NoLookup == [err |-> NoErr, ips |-> <<>>]

Labels == {<<"service", "add">>, <<"endpoints", "add">>, <<"pod", "add">>,
           <<"service", "delete">>, <<"endpoints", "delete">>, <<"pod", "delete">>}
ActionNames == {"add", "delete"}
Calls == {<<"create", "service">>, <<"create", "endpoints">>, <<"create", "pod">>,
          <<"delete", "service">>, <<"delete", "endpoints">>, <<"delete", "pod">>}

\* What a Create or Delete call returns.
ApiResults == {NoErr, "api error"}

\* Values of "kubernoisy-" + RandStringBytes(18); NoName: no name yet.
RandStrings == {"kubernoisy-a", "kubernoisy-b"}
NoName == ""

VARIABLES
    variant,              \* which build of main() runs
    ops,                  \* -ops
    timeout,              \* -timeout, seconds
    fires,                \* ticks the runtime timer still sends in this run
    taken,                \* how often the generator has returned each string (2: more than once)
    slowest,              \* the longest a lookup takes in this run, seconds
    namespace,            \* -namespace
    names,                \* the strings the name generator returns in this run
    oracle,               \* the answers the resolver gives in this run
    stub,                 \* the errors the API returns in this run, per call
    store,                \* the API server keeps the objects it is given
    cluster,              \* the objects the API server holds
    main,                 \* where main() is
    sigNotify,            \* signal.Notify has registered the channel
    metricsServer,        \* go http.ListenAndServe was started
    ticker,               \* period of the ticker in nanoseconds, 0: no ticker
    ticks,                \* ticks received by the select loop
    launched,             \* goroutines started by the select loop
    returned,             \* goroutines that ran to their end
    cycles,               \* the live goroutines' locals
    requests,             \* calls the API server has answered, per verb and kind
    OperationCount,
    ValidationFailCount,
    ValidationDuration

vars == <<variant, ops, timeout, fires, taken, slowest, namespace, names, oracle, stub, store,
          cluster, main, sigNotify, metricsServer, ticker,
          ticks, launched, returned, cycles, requests, OperationCount, ValidationFailCount,
          ValidationDuration>>

config == <<variant, ops, timeout, slowest, namespace, names, oracle, stub, store>>
metrics == <<OperationCount, ValidationFailCount, ValidationDuration>>
scheduler == <<fires, taken, main, sigNotify, metricsServer, ticker, ticks, launched>>

\* ------------------------------------------------------- goroutine
\* pc: the blocking call the goroutine is in.  err: the error of the API
\* call that just returned.  ans: the lookup result that broke the loop.
\* t: seconds since the loop's start.  calls: the API calls issued so far.
\* polls: lookups made in the current loop.  rando: the generated name.
\* target: the name in the goroutine's latest request to the API or the
\* resolver.
NewCycle(first, rando) ==
    [pc |-> first, err |-> NoErr, ans |-> NoLookup, t |-> 0, elapsed |-> 0,
     verified |-> FALSE, polls |-> 0, calls |-> <<>>, rando |-> rando,
     target |-> NoName]

Live == BagToSet(cycles)

\* The state after flag.Parse(), for a run with the given flags in which
\* the ticker fires n times before the run is cut off and no lookup
\* takes longer than lat.
Start(opsGiven, timeouts, n, lat) ==
    /\ variant \in Variants
    /\ ops \in opsGiven[variant]
    /\ timeout \in timeouts
    /\ fires = n
    /\ taken = [s \in RandStrings |-> 0]
    /\ slowest = lat
    /\ namespace = "load-test"
    /\ cluster = {}
    /\ main = "validate"
    /\ sigNotify = FALSE
    /\ metricsServer = FALSE
    /\ ticker = 0
    /\ ticks = 0
    /\ launched = 0
    /\ returned = 0
    /\ cycles = EmptyBag
    /\ requests = [q \in Calls |-> 0]
    /\ OperationCount = [l \in Labels |-> 0]
    /\ ValidationFailCount = [a \in ActionNames |-> 0]
    /\ ValidationDuration = [a \in ActionNames |-> [count |-> 0, sum |-> 0]]

\* Any flags, one tick: startup and one cycle's verification loops.
\* The API is a stub that answers anything and keeps nothing, the
\* resolver answers anything, one name is generated.
AnyAnswer ==
    /\ names = {"kubernoisy-a"}
    /\ oracle = LookupResults
    /\ stub = [q \in Calls |-> ApiResults]
    /\ store = FALSE

Init ==
    /\ Start([v \in Variants |-> IF v = "svc" THEN OpsInt ELSE OpsFloat], Timeouts, 1,
             MaxLatency)
    /\ AnyAnswer

\* Default -ops, short timeouts, a fast resolver, MaxCycles ticks:
\* concurrent cycles.
InitConc == Start([v \in Variants |-> {DefaultOps}], {0, 1}, MaxCycles, 0) /\ AnyAnswer

\* ---------------------------------------------------------- startup
\* A slip: "<" for "<=".
ValidateOpsNegative ==
    /\ main = "validate"
    /\ main' = IF ops.num < 0 THEN "fatal" ELSE "notify"
    /\ UNCHANGED <<config, metrics, fires, taken, sigNotify, metricsServer, ticker, ticks,
                   launched, returned, cycles, requests, cluster>>

\* if ops <= 0 { log.Fatal(...) }
ValidateOps ==
    /\ main = "validate"
    /\ main' = IF ops.num <= 0 THEN "fatal" ELSE "notify"
    /\ UNCHANGED <<config, metrics, fires, taken, sigNotify, metricsServer, ticker, ticks,
                   launched, returned, cycles, requests, cluster>>

\* sig := make(chan os.Signal, 1); signal.Notify(sig, SIGINT, SIGTERM)
SignalNotify ==
    /\ main = "notify"
    /\ sigNotify' = TRUE
    /\ main' = "getAPIConn"
    /\ UNCHANGED <<config, metrics, fires, taken, metricsServer, ticker, ticks, launched,
                   returned, cycles, requests, cluster>>

\* kapi, err := getAPIConn(); if err != nil { log.Fatal(err) }
GetAPIConn ==
    /\ main = "getAPIConn"
    /\ \E err \in {NoErr, "no in-cluster config"} :
           main' = IF err # NoErr THEN "fatal" ELSE "serve"
    /\ UNCHANGED <<config, metrics, fires, taken, sigNotify, metricsServer, ticker, ticks,
                   launched, returned, cycles, requests, cluster>>

\* http.Handle("/metrics", ...); go http.ListenAndServe(promaddr, nil)
ServeMetrics ==
    /\ main = "serve"
    /\ metricsServer' = TRUE
    /\ main' = "newTicker"
    /\ UNCHANGED <<config, metrics, fires, taken, sigNotify, ticker, ticks, launched,
                   returned, cycles, requests, cluster>>

\* 1 * time.Second / time.Duration(ops): integer division of nanoseconds.
TickerPeriodInt(o) == Second \div o.num

\* time.Duration(1/ops) * time.Second: the float 1/ops is truncated to an
\* integer before it is scaled to nanoseconds.
TickerPeriodFloat(o) == (o.den \div o.num) * Second

TickerPeriod(o) ==
    IF variant = "svc" THEN TickerPeriodInt(o) ELSE TickerPeriodFloat(o)

\* time.NewTicker(d) panics when d <= 0.
NewTicker ==
    /\ main = "newTicker"
    /\ IF TickerPeriod(ops) <= 0
       THEN main' = "panic" /\ ticker' = ticker
       ELSE main' = "running" /\ ticker' = TickerPeriod(ops)
    /\ UNCHANGED <<config, metrics, fires, taken, sigNotify, metricsServer, ticks, launched,
                   returned, cycles, requests, cluster>>

\* -------------------------------------------------------- scheduler
\* A slip: goroutines that outlive os.Exit.
AliveAfterExit == main \in {"running", "stopped"}

\* Goroutines run while the process does: from the select loop's first
\* tick until os.Exit.
Alive == main = "running"

\* go func() { rando := "kubernoisy-" + RandStringBytes(18); the goroutine
\* is in its first Create call
FirstCall == IF variant = "svc" THEN "createService" ELSE "createPod"

\* RandStringBytes has returned rando once more.
Generated(rando) == [taken EXCEPT ![rando] = IF @ = 0 THEN 1 ELSE 2]

Spawn(rando) == cycles (+) SetToBag({NewCycle(FirstCall, rando)})

\* A slip: a select loop that takes a tick only when no cycle is in flight.
TickWhenIdle ==
    /\ main = "running"
    /\ fires > 0
    /\ launched < MaxCycles
    /\ cycles = EmptyBag
    /\ fires' = fires - 1
    /\ ticks' = ticks + 1
    /\ launched' = launched + 1
    /\ \E rando \in names : cycles' = Spawn(rando) /\ taken' = Generated(rando)
    /\ UNCHANGED <<config, metrics, main, sigNotify, metricsServer, ticker, returned,
                   requests, cluster>>

\* case <-ticker.C: go func() {...}()
\* The runtime's timer has sent on ticker.C and the select loop receives it.
Tick ==
    /\ main = "running"
    /\ fires > 0
    /\ launched < MaxCycles
    /\ fires' = fires - 1
    /\ ticks' = ticks + 1
    /\ launched' = launched + 1
    /\ \E rando \in names : cycles' = Spawn(rando) /\ taken' = Generated(rando)
    /\ UNCHANGED <<config, metrics, main, sigNotify, metricsServer, ticker, returned,
                   requests, cluster>>

\* case <-sig: log.Printf("Got signal, exiting"); os.Exit(0)
\* SIGINT or SIGTERM was relayed to sig and the select loop receives it.
Exit ==
    /\ main = "running"
    /\ sigNotify
    /\ main' = "stopped"
    /\ UNCHANGED <<config, metrics, fires, taken, sigNotify, metricsServer, ticker, ticks,
                   launched, returned, cycles, requests, cluster>>

\* ------------------------------------------------- a cycle's API calls

\* The goroutine with locals cyc goes on with locals next.
Step(cyc, next) == cycles' = (cycles (-) SetToBag({cyc})) (+) SetToBag({next})

\* The API server has answered one more call.
Answered(verb, kind) == [requests EXCEPT ![<<verb, kind>>] = @ + 1]

\* A slip: a counter that is read, incremented and written back without
\* atomicity: with another goroutine in flight a write can carry a value
\* read before the other's write, and that increment is lost.
IncRacy(kind, action) ==
    [OperationCount EXCEPT ![<<kind, action>>] =
        IF BagCardinality(cycles) > 1 /\ @ > 0 THEN @ ELSE @ + 1]

\* OperationCount.WithLabelValues(kind, action).Inc(): a prometheus
\* counter, incremented atomically.
Inc(kind, action) == [OperationCount EXCEPT ![<<kind, action>>] = @ + 1]

\* A slip: an object named by another string of the generator.
ObjectMetaRenamed(cyc, kind) ==
    [kind |-> kind, namespace |-> namespace,
     name |-> CHOOSE n \in names : names = {cyc.rando} \/ n # cyc.rando]

\* metav1.ObjectMeta{Name: rando, Namespace: namespace} of a created
\* object; ...(namespace).Delete(rando, ...) names an object the same way.
ObjectMeta(cyc, kind) == [kind |-> kind, namespace |-> namespace, name |-> cyc.rando]

\* The API server.  One that keeps its objects refuses to create what it
\* holds and to delete what it does not hold, and may fail any other call;
\* the stub answers what it is set to answer.
CreateErrs(obj) ==
    IF store
    THEN IF obj \in cluster THEN {"api error"} ELSE ApiResults
    ELSE stub[<<"create", obj.kind>>]

DeleteErrs(obj) ==
    IF store
    THEN IF obj \in cluster THEN ApiResults ELSE {"api error"}
    ELSE stub[<<"delete", obj.kind>>]

\* "delete headless service and (implicitly) endpoints": the endpoints of
\* a service's name go with the service.
Dependents(obj) ==
    IF obj.kind = "service" THEN {[obj EXCEPT !.kind = "endpoints"]} ELSE {}

Created(obj, err) == IF store /\ err = NoErr THEN cluster \cup {obj} ELSE cluster

Deleted(obj, err) ==
    IF store /\ err = NoErr THEN cluster \ ({obj} \cup Dependents(obj)) ELSE cluster

\* The goroutine's latest request carried this name.
Sent(cyc, name) == [cyc EXCEPT !.target = name]

\* A slip: a failed call is issued again.
AfterCallRetry(cyc, verb, kind, err, next) ==
    [cyc EXCEPT !.err = err, !.calls = Append(@, <<verb, kind>>),
                !.pc = IF err # NoErr THEN cyc.pc ELSE next]

\* The call kapi...(kind).verb returned err; the goroutine goes on to next.
AfterCall(cyc, verb, kind, err, next) ==
    [cyc EXCEPT !.err = err, !.calls = Append(@, <<verb, kind>>), !.pc = next]

\* kapi.CoreV1().<kind>(namespace).Create(obj) returns err.
Create(cyc, kind, err, next) ==
    LET obj == ObjectMeta(cyc, kind) IN
    /\ err \in CreateErrs(obj)
    /\ Step(cyc, Sent(AfterCall(cyc, "create", kind, err, next), obj.name))
    /\ cluster' = Created(obj, err)
    /\ requests' = Answered("create", kind)

\* kapi.CoreV1().<kind>(namespace).Delete(rando, &metav1.DeleteOptions{})
\* returns err.
Delete(cyc, kind, err, next) ==
    LET obj == ObjectMeta(cyc, kind) IN
    /\ err \in DeleteErrs(obj)
    /\ Step(cyc, Sent(AfterCall(cyc, "delete", kind, err, next), obj.name))
    /\ cluster' = Deleted(obj, err)
    /\ requests' = Answered("delete", kind)

\* A slip: log.Fatal for log.Printf when the service cannot be created.
CreateServiceFatal(cyc) ==
    /\ Alive /\ variant = "svc"
    /\ cyc.pc = "createService"
    /\ \E err \in ApiResults :
         /\ Create(cyc, "service", err, "createEndpoints")
         /\ main' = IF err # NoErr THEN "fatal" ELSE main
    /\ OperationCount' = Inc("service", "add")
    /\ UNCHANGED <<config, fires, taken, sigNotify, metricsServer, ticker, ticks, launched,
                   returned, ValidationFailCount, ValidationDuration>>

\* svc build: the service's add is counted whatever err is.
CreateService(cyc) ==
    /\ Alive /\ variant = "svc"
    /\ cyc.pc = "createService"
    /\ \E err \in ApiResults : Create(cyc, "service", err, "createEndpoints")
    /\ OperationCount' = Inc("service", "add")
    /\ UNCHANGED <<config, scheduler, returned, ValidationFailCount, ValidationDuration>>

\* svc build: the endpoints' add is counted whatever err is.
CreateEndpoints(cyc) ==
    /\ Alive /\ variant = "svc"
    /\ cyc.pc = "createEndpoints"
    /\ \E err \in ApiResults : Create(cyc, "endpoints", err, "startAdd")
    /\ OperationCount' = Inc("endpoints", "add")
    /\ UNCHANGED <<config, scheduler, returned, ValidationFailCount, ValidationDuration>>

\* svc build: the service's delete is counted whatever err is.
DeleteService(cyc) ==
    /\ Alive /\ variant = "svc"
    /\ cyc.pc = "deleteService"
    /\ \E err \in ApiResults : Delete(cyc, "service", err, "startDelete")
    /\ OperationCount' = Inc("service", "delete")
    /\ UNCHANGED <<config, scheduler, returned, ValidationFailCount, ValidationDuration>>

\* A slip: the pod build counting like the svc build.
IncWhateverErr(err, kind, action) == Inc(kind, action)

\* pod build: if err != nil { log } else { OperationCount...Inc() }
IncOnSuccess(err, kind, action) ==
    IF err # NoErr THEN OperationCount ELSE Inc(kind, action)

PodCreatePod(cyc) ==
    /\ Alive /\ variant = "pod"
    /\ cyc.pc = "createPod"
    /\ \E err \in ApiResults :
         /\ Create(cyc, "pod", err, "createService")
         /\ OperationCount' = IncOnSuccess(err, "pod", "add")
    /\ UNCHANGED <<config, scheduler, returned, ValidationFailCount, ValidationDuration>>

PodCreateService(cyc) ==
    /\ Alive /\ variant = "pod"
    /\ cyc.pc = "createService"
    /\ \E err \in ApiResults :
         /\ Create(cyc, "service", err, "startAdd")
         /\ OperationCount' = IncOnSuccess(err, "service", "add")
    /\ UNCHANGED <<config, scheduler, returned, ValidationFailCount, ValidationDuration>>

PodDeletePod(cyc) ==
    /\ Alive /\ variant = "pod"
    /\ cyc.pc = "deletePod"
    /\ \E err \in ApiResults :
         /\ Delete(cyc, "pod", err, "deleteService")
         /\ OperationCount' = IncOnSuccess(err, "pod", "delete")
    /\ UNCHANGED <<config, scheduler, returned, ValidationFailCount, ValidationDuration>>

PodDeleteService(cyc) ==
    /\ Alive /\ variant = "pod"
    /\ cyc.pc = "deleteService"
    /\ \E err \in ApiResults :
         /\ Delete(cyc, "service", err, "startDelete")
         /\ OperationCount' = IncOnSuccess(err, "service", "delete")
    /\ UNCHANGED <<config, scheduler, returned, ValidationFailCount, ValidationDuration>>

\* ------------------------------------------------ verification loops
\* verified := false; elapsed = 0; for start := time.Now(); ...
\* The API call's err is not read from here on and is forgotten.
StartLoop(cyc, loop) ==
    [cyc EXCEPT !.verified = FALSE, !.elapsed = 0, !.t = 0, !.polls = 0,
                !.err = NoErr, !.pc = loop]

\* A slip: the absence loop started without waiting for the delete calls.
StartDeleteEarly(cyc) ==
    /\ Alive
    /\ cyc.pc \in {"deletePod", "deleteService", "startDelete"}
    /\ Step(cyc, StartLoop(cyc, "loopDelete"))
    /\ UNCHANGED <<config, scheduler, returned, requests, cluster, metrics>>

StartAdd(cyc) ==
    /\ Alive
    /\ cyc.pc = "startAdd"
    /\ Step(cyc, StartLoop(cyc, "loopAdd"))
    /\ UNCHANGED <<config, scheduler, returned, requests, cluster, metrics>>

StartDelete(cyc) ==
    /\ Alive
    /\ cyc.pc = "startDelete"
    /\ Step(cyc, StartLoop(cyc, "loopDelete"))
    /\ UNCHANGED <<config, scheduler, returned, requests, cluster, metrics>>

\* A slip: "<=" for "<".
LoopCondInclusive(cyc) == cyc.t <= timeout

\* time.Since(start) < timeout
LoopCond(cyc) == cyc.t < timeout

\* svc build: err == nil && len(ips) > 0 && ips[0].String() == ip
PresenceSvc(r) == r.err = NoErr /\ Len(r.ips) > 0 /\ r.ips[1] = ip

\* pod build: err == nil && len(ips) > 0
PresencePod(r) == r.err = NoErr /\ Len(r.ips) > 0

Presence(r) == IF variant = "svc" THEN PresenceSvc(r) ELSE PresencePod(r)

\* A slip: any lookup error taken for the name being gone.
AbsenceOnAnyError(r) == r.err # NoErr

\* err != nil && strings.Contains(err.Error(), "no such host")
Absence(r) == r.err # NoErr /\ r.err = "no such host"

\* A slip: start := time.Now() taken inside the loop body, so that the
\* clock restarts with every pass.
IterationRestart(cyc, r, lat, hit, loop, record) ==
    IF hit
    THEN [cyc EXCEPT !.ans = r, !.t = @ + lat, !.polls = @ + 1,
                     !.verified = TRUE, !.pc = record]
    ELSE [cyc EXCEPT !.t = 0, !.elapsed = lat + SleepSeconds, !.pc = loop]

\* One pass of a loop body.  net.LookupIP(rando) takes lat seconds and
\* returns r.
\* On a hit: verified = true; break (r is the answer that ended the loop).
\* Otherwise: time.Sleep(time.Second); elapsed = time.Since(start), and
\* the body's ips and err go out of scope.
Iteration(cyc, r, lat, hit, loop, record) ==
    IF hit
    THEN [cyc EXCEPT !.ans = r, !.t = @ + lat, !.polls = @ + 1,
                     !.verified = TRUE, !.pc = record]
    ELSE [cyc EXCEPT !.t = @ + lat + SleepSeconds,
                     !.elapsed = cyc.t + lat + SleepSeconds,
                     !.polls = @ + 1, !.pc = loop]

\* The resolver.  Beside an API server that keeps its objects it serves
\* them: a name has its address while the API server holds both objects
\* the build creates under it, and is unknown otherwise.  Beside a stub it
\* gives any of its answers.
Served(cyc) ==
    \A kind \in (IF variant = "svc" THEN {"service", "endpoints"} ELSE {"service", "pod"}) :
        ObjectMeta(cyc, kind) \in cluster

Answers(cyc) ==
    IF store THEN {r \in oracle : r.err = NoErr <=> Served(cyc)} ELSE oracle

PollAdd(cyc) ==
    /\ Alive
    /\ cyc.pc = "loopAdd"
    /\ LoopCond(cyc)
    /\ \E r \in Answers(cyc), lat \in 0..slowest :
         Step(cyc, Sent(Iteration(cyc, r, lat, Presence(r), "loopAdd", "recordAdd"),
                        cyc.rando))
    /\ UNCHANGED <<config, scheduler, returned, requests, cluster, metrics>>

PollDelete(cyc) ==
    /\ Alive
    /\ cyc.pc = "loopDelete"
    /\ LoopCond(cyc)
    /\ \E r \in Answers(cyc), lat \in 0..slowest :
         Step(cyc, Sent(Iteration(cyc, r, lat, Absence(r), "loopDelete", "recordDelete"),
                        cyc.rando))
    /\ UNCHANGED <<config, scheduler, returned, requests, cluster, metrics>>

\* The for condition is false: the loop ends with verified as it is.
LoopExitAdd(cyc) ==
    /\ Alive
    /\ cyc.pc = "loopAdd"
    /\ ~LoopCond(cyc)
    /\ Step(cyc, [cyc EXCEPT !.pc = "recordAdd"])
    /\ UNCHANGED <<config, scheduler, returned, requests, cluster, metrics>>

LoopExitDelete(cyc) ==
    /\ Alive
    /\ cyc.pc = "loopDelete"
    /\ ~LoopCond(cyc)
    /\ Step(cyc, [cyc EXCEPT !.pc = "recordDelete"])
    /\ UNCHANGED <<config, scheduler, returned, requests, cluster, metrics>>

\* ValidationDuration.WithLabelValues(a).Observe(d.Seconds())
Observe(a, d) ==
    [ValidationDuration EXCEPT ![a] = [count |-> @.count + 1, sum |-> @.sum + d]]

\* ValidationFailCount.WithLabelValues(a).Inc()
Fail(a) == [ValidationFailCount EXCEPT ![a] = @ + 1]

\* A slip: the failure counted before the if, not inside it.
RecordFailFirst(cyc, a) ==
    /\ ValidationFailCount' = Fail(a)
    /\ ValidationDuration' =
           IF ~cyc.verified THEN ValidationDuration ELSE Observe(a, cyc.elapsed)

\* if !verified { ValidationFailCount...Inc() } else { ...Observe(elapsed) }
Record(cyc, a) ==
    IF ~cyc.verified
    THEN ValidationFailCount' = Fail(a) /\ ValidationDuration' = ValidationDuration
    ELSE ValidationFailCount' = ValidationFailCount
         /\ ValidationDuration' = Observe(a, cyc.elapsed)

\* A slip: the pod build going straight to the service's delete.
DeleteServiceOnly == "deleteService"

\* The first Delete call of the goroutine.
FirstDelete == IF variant = "svc" THEN "deleteService" ELSE "deletePod"

\* The loop is left: start, ips and err are out of scope; verified and
\* elapsed are not read again before they are set anew.
LeaveLoop(cyc, next) ==
    [cyc EXCEPT !.pc = next, !.t = 0, !.ans = NoLookup, !.verified = FALSE,
                !.elapsed = 0, !.polls = 0]

RecordAdd(cyc) ==
    /\ Alive
    /\ cyc.pc = "recordAdd"
    /\ Record(cyc, "add")
    /\ Step(cyc, LeaveLoop(cyc, FirstDelete))
    /\ UNCHANGED <<config, scheduler, returned, requests, cluster, OperationCount>>

RecordDelete(cyc) ==
    /\ Alive
    /\ cyc.pc = "recordDelete"
    /\ Record(cyc, "delete")
    /\ Step(cyc, LeaveLoop(cyc, "return"))
    /\ UNCHANGED <<config, scheduler, returned, requests, cluster, OperationCount>>

\* }() : the goroutine returns and its locals are gone.
Return(cyc) ==
    /\ Alive
    /\ cyc.pc = "return"
    /\ cycles' = cycles (-) SetToBag({cyc})
    /\ returned' = returned + 1
    /\ UNCHANGED <<config, scheduler, requests, cluster, metrics>>

Cycle(cyc) ==
    \/ CreateService(cyc)
    \/ CreateEndpoints(cyc)
    \/ DeleteService(cyc)
    \/ PodCreatePod(cyc)
    \/ PodCreateService(cyc)
    \/ PodDeletePod(cyc)
    \/ PodDeleteService(cyc)
    \/ StartAdd(cyc)
    \/ PollAdd(cyc)
    \/ LoopExitAdd(cyc)
    \/ RecordAdd(cyc)
    \/ StartDelete(cyc)
    \/ PollDelete(cyc)
    \/ LoopExitDelete(cyc)
    \/ RecordDelete(cyc)
    \/ Return(cyc)

Next ==
    \/ ValidateOps
    \/ SignalNotify
    \/ GetAPIConn
    \/ ServeMetrics
    \/ NewTicker
    \/ Tick
    \/ Exit
    \/ \E cyc \in Live : Cycle(cyc)

Spec == Init /\ [][Next]_vars

SpecConc == InitConc /\ [][Next]_vars

\* =====================================================================
\* Properties
\* =====================================================================
\* The goroutine that took the step: its locals before and after.
Left == {r \in BagToSet(cycles) : CopiesIn(r, cycles) > CopiesIn(r, cycles')}
Arrived == {r \in BagToSet(cycles') : CopiesIn(r, cycles') > CopiesIn(r, cycles)}

\* The counter label of an API call.
LabelOf(q) == <<q[2], IF q[1] = "create" THEN "add" ELSE "delete">>

\* Every launched cycle ran to its end.
AllReturned == launched > 0 /\ returned = launched

C1_Counts ==
    \A q \in Calls :
        /\ OperationCount[LabelOf(q)] <= requests[q]
        /\ variant = "svc" => OperationCount[LabelOf(q)] = requests[q]
        /\ AllReturned /\ requests[q] > 0 => requests[q] = returned

C1_Step ==
    \A q \in Calls :
        LET l == LabelOf(q) IN
        IF requests'[q] = requests[q] + 1
        THEN \A r \in Arrived :
                OperationCount'[l] =
                    IF variant = "svc" \/ r.err = NoErr
                    THEN OperationCount[l] + 1 ELSE OperationCount[l]
        ELSE requests'[q] = requests[q] /\ OperationCount'[l] = OperationCount[l]

RecordPc(a) == IF a = "add" THEN "recordAdd" ELSE "recordDelete"

\* pcs of a goroutine whose verification for action a has been recorded.
Recorded(a) ==
    IF a = "add"
    THEN {"deletePod", "deleteService", "startDelete", "loopDelete", "recordDelete",
          "return"}
    ELSE {"return"}

\* Live goroutines at one of the pcs.
LiveAt(pcs) ==
    BagCardinality([r \in {x \in Live : x.pc \in pcs} |-> CopiesIn(r, cycles)])

\* Verification phases for action a that have ended and been recorded.
Finished(a) == returned + LiveAt(Recorded(a))

C2_Sum ==
    \A a \in ActionNames :
        ValidationFailCount[a] + ValidationDuration[a].count = Finished(a)

C2_Step ==
    \A a \in ActionNames :
        LET recording == {r \in Left : r.pc = RecordPc(a)} IN
        IF recording # {}
        THEN \A r \in recording :
                IF r.verified
                THEN /\ ValidationDuration'[a].count = ValidationDuration[a].count + 1
                     /\ ValidationFailCount'[a] = ValidationFailCount[a]
                ELSE /\ ValidationFailCount'[a] = ValidationFailCount[a] + 1
                     /\ ValidationDuration'[a] = ValidationDuration[a]
        ELSE /\ ValidationFailCount'[a] = ValidationFailCount[a]
             /\ ValidationDuration'[a] = ValidationDuration[a]

\* C2: the step that ends a verification phase makes exactly one metric
\* update, a failure increment when the phase timed out and one observed
\* duration when it converged; so failures plus observations for an action
\* always equal the phases for that action that have ended.
C2_OneUpdatePerPhase == []C2_Sum /\ [][C2_Step]_vars

\* Of two add phases one timed out and one converged, and a delete phase
\* has been recorded as well.
C2_Witness ==
    /\ ValidationFailCount["add"] = 1
    /\ ValidationDuration["add"].count = 1
    /\ ValidationFailCount["delete"] + ValidationDuration["delete"].count >= 1

\* ---------------------------------------------------------------- C3
RecordPcs == {"recordAdd", "recordDelete"}

\* C3: a loop ends verified only on a matching answer: presence on an
\* answer without error and with an address (the expected one in the svc
\* build), absence on the error "no such host"; a loop that ends
\* unverified has polled until the timeout.
C3_ConvergedOnlyOnMatch ==
    \A r \in Live :
        /\ r.verified => r.pc \in RecordPcs
        /\ r.pc = "recordAdd" /\ r.verified =>
               /\ r.ans.err = NoErr
               /\ Len(r.ans.ips) >= 1
               /\ variant = "svc" => r.ans.ips[1] = ip
        /\ r.pc = "recordDelete" /\ r.verified => r.ans.err = "no such host"
        /\ r.pc \in RecordPcs /\ ~r.verified => r.t >= timeout

\* An absence loop converged at its second poll, after an answer that did
\* not match.
C3_Witness ==
    \E r \in Live : r.pc = "recordDelete" /\ r.verified /\ r.polls = 2

\* ---------------------------------------------------------------- C4
\* C4 as stated: an unverified verdict comes only after at least one poll
\* and once the time since the loop's start has reached the timeout.
C4_Original ==
    \A r \in Live :
        r.pc \in RecordPcs /\ ~r.verified => r.polls >= 1 /\ r.t >= timeout

\* ---------------------------------------------------------------- C5
\* C5 as stated: the duration observed for a converged phase is the time
\* from the loop's start to the moment the converging answer was obtained.
C5_Original ==
    [][\A a \in ActionNames :
         ValidationDuration'[a].count = ValidationDuration[a].count + 1 =>
            \A r \in {x \in Left : x.pc = RecordPc(a)} :
                ValidationDuration'[a].sum = ValidationDuration[a].sum + r.t]_vars

\* ---------------------------------------------------------------- C6
C6_Counts ==
    /\ launched = ticks
    /\ BagCardinality(cycles) + returned = launched
    /\ main = "running" /\ fires > 0 /\ launched < MaxCycles => ENABLED Tick

C6_Step ==
    /\ launched' # launched \/ ticks' # ticks =>
           /\ ticks' = ticks + 1
           /\ launched' = launched + 1
           /\ \E n \in names : cycles' = cycles (+) SetToBag({NewCycle(FirstCall, n)})
    /\ BagCardinality(cycles') > BagCardinality(cycles) => ticks' = ticks + 1

\* C6: each tick received launches exactly one goroutine and leaves the
\* earlier ones as they are; while running, a pending tick can be taken
\* whatever the goroutines in flight are doing; goroutines launched equal
\* ticks received.
C6_OneCyclePerTick == []C6_Counts /\ [][C6_Step]_vars

\* A cycle was just launched while an earlier one is in its absence loop.
C6_Witness ==
    /\ launched = MaxCycles
    /\ \E r \in Live : r.pc = FirstCall
    /\ \E r \in Live : r.pc = "loopDelete"

\* ---------------------------------------------------------------- C7
\* 1/ops seconds in whole nanoseconds: floor(Second * den / num).
ExactPeriod(o) ==
    (Second \div o.num) * o.den + ((Second % o.num) * o.den) \div o.num

\* C7 as stated: for every -ops > 0 the ticker is created with a positive
\* period of 1/ops seconds and the select loop is reached.
C7_Original ==
    ops.num > 0 /\ main \in {"running", "stopped", "panic"} =>
        /\ main # "panic"
        /\ ticker > 0
        /\ ticker = ExactPeriod(ops)

\* ---------------------------------------------------------------- C8
NoMetrics ==
    /\ \A l \in Labels : OperationCount[l] = 0
    /\ \A a \in ActionNames :
          ValidationFailCount[a] = 0 /\ ValidationDuration[a].count = 0

\* C8: with -ops <= 0 main() ends in log.Fatal straight after the flags:
\* no signal channel, no metrics server, no ticker, no goroutine, no API
\* call, no metric update.
C8_FatalBeforeAnything ==
    ops.num <= 0 =>
        /\ main \in {"validate", "fatal"}
        /\ ~sigNotify /\ ~metricsServer
        /\ ticker = 0 /\ ticks = 0 /\ launched = 0
        /\ cycles = EmptyBag
        /\ \A q \in Calls : requests[q] = 0
        /\ NoMetrics

C8_Witness == ops.num <= 0 /\ main = "fatal"

\* ---------------------------------------------------------------- C9
C9_TwoStates == ticker > 0 => main \in {"running", "stopped"}

C9_Step ==
    /\ main = "stopped" => UNCHANGED vars
    /\ main' = "stopped" /\ main # "stopped" =>
           /\ main = "running" /\ sigNotify
           /\ UNCHANGED <<cycles, returned, requests, cluster, launched, ticks, metrics>>

\* C9: once the ticker exists main() is either running or stopped; it
\* stops only from running, on a signal, without touching the goroutines
\* in flight; once stopped nothing changes any more: no launch, no API
\* call, no poll, no metric update.
C9_StoppedIsTerminal == []C9_TwoStates /\ [][C9_Step]_vars

\* Stopped with one cycle abandoned in its presence loop and another
\* before its delete call.
C9_Witness ==
    /\ main = "stopped"
    /\ \E r \in Live : r.pc = "loopAdd"
    /\ \E r \in Live : r.pc = FirstDelete

\* --------------------------------------------------------------- C10
\* The API calls of one cycle, in order.
Plan ==
    IF variant = "svc"
    THEN << <<"create", "service">>, <<"create", "endpoints">>, <<"delete", "service">> >>
    ELSE << <<"create", "pod">>, <<"create", "service">>, <<"delete", "pod">>,
            <<"delete", "service">> >>

\* How many of them have returned when the goroutine is at pc.
DoneAt(pc) ==
    IF pc = FirstCall THEN 0
    ELSE IF pc \in {"createEndpoints", "createService"} THEN 1
    ELSE IF pc \in {"startAdd", "loopAdd", "recordAdd", FirstDelete} THEN 2
    ELSE IF pc = "deleteService" THEN 3
    ELSE Len(Plan)

C10_InOrder ==
    \A r \in Live :
        /\ r.calls = SubSeq(Plan, 1, DoneAt(r.pc))
        /\ Alive => ENABLED Cycle(r)

C10_Step ==
    /\ main = "running" /\ main' # "running" =>
           main' = "stopped" /\ cycles' = cycles /\ requests' = requests
    /\ Cardinality(Left) <= 1 /\ Cardinality(Arrived) <= 1

\* C10: whatever its calls returned and however its verifications ended,
\* a goroutine has issued exactly the calls of the plan up to where it is,
\* each once and in order, and it can always take its next step; a step
\* touches one goroutine only, and only the signal stops main().
C10_NoAbortNoRetry == []C10_InOrder /\ [][C10_Step]_vars

\* Every cycle of a pod-build run ran to its end although all its API
\* calls failed and both its verifications timed out; each call was
\* issued once per cycle.
C10_Witness ==
    /\ variant = "pod" /\ AllReturned /\ returned = MaxCycles
    /\ \A l \in Labels : OperationCount[l] = 0
    /\ \A i \in 1..Len(Plan) : requests[Plan[i]] = returned
    /\ \A a \in ActionNames : ValidationFailCount[a] = returned

\* --------------------------------------------------------------- C11
\* The phase a goroutine is in: 1 create, 2 presence verification,
\* 3 delete, 4 absence verification, 5 done.
Phase(pc) ==
    IF pc \in {"createPod", "createService", "createEndpoints"} THEN 1
    ELSE IF pc \in {"startAdd", "loopAdd", "recordAdd"} THEN 2
    ELSE IF pc \in {"deletePod", "deleteService"} THEN 3
    ELSE IF pc \in {"startDelete", "loopDelete", "recordDelete"} THEN 4
    ELSE 5

Creates == {q \in Calls : q[1] = "create"}
Deletes == {q \in Calls : q[1] = "delete"}

\* The calls of a kind the goroutine has issued.
Issued(r, qs) == {i \in 1..Len(r.calls) : r.calls[i] \in qs}

C11_Sequential ==
    \A r \in Live :
        /\ Phase(r.pc) = 1 => r.polls = 0 /\ Issued(r, Deletes) = {}
        /\ Phase(r.pc) = 2 =>
               Cardinality(Issued(r, Creates)) = 2 /\ Issued(r, Deletes) = {}
        /\ Phase(r.pc) = 3 => r.polls = 0 /\ Cardinality(Issued(r, Creates)) = 2
        /\ Phase(r.pc) >= 4 =>
               Cardinality(Issued(r, Deletes)) = Len(Plan) - 2
        /\ r.polls > 0 => r.pc \in {"loopAdd", "recordAdd", "loopDelete", "recordDelete"}
        /\ Alive => ENABLED Cycle(r)

C11_Step ==
    \A r \in Left : \A n \in Arrived :
        /\ Phase(n.pc) \in {Phase(r.pc), Phase(r.pc) + 1}
        /\ Phase(n.pc) = 3 /\ Phase(r.pc) = 2 => r.pc = "recordAdd"
        /\ Phase(n.pc) = 4 /\ Phase(r.pc) = 3 =>
               Len(n.calls) = Len(Plan) /\ n.calls[Len(Plan)][1] = "delete"
        /\ n.polls > r.polls => r.pc = n.pc \/ n.pc = RecordPc("add") \/ n.pc = RecordPc("delete")

\* C11: a goroutine goes through its phases in order, one at a time: it
\* polls only inside a verification loop; in the presence loop both
\* creates have returned and no delete was issued; the first delete is
\* issued from the end of the presence verification only; the absence
\* loop is entered only when the last delete has returned.  Whatever
\* phase the other goroutines are in, each goroutine can take its step.
C11_PhasesInOrder == []C11_Sequential /\ [][C11_Step]_vars

\* One cycle is at the end of its absence verification, after a poll,
\* while another has not got the answer to its first create yet.
C11_Witness ==
    /\ \E r \in Live : r.pc = "loopDelete" /\ r.polls > 0
    /\ \E r \in Live : r.pc = FirstCall

\* --------------------------------------------------------------- C12
\* An API stub and a resolver stub of fixed behaviour: each call of the
\* build's plan always succeeds or always fails, and the resolver always
\* gives the same answer.
FixedAnswer ==
    /\ names = {"kubernoisy-a"}
    /\ \E r \in LookupResults : oracle = {r}
    /\ stub \in [Calls -> {{e} : e \in ApiResults} \cup {ApiResults}]
    /\ \A q \in Calls :
          stub[q] = ApiResults <=> \A i \in 1..Len(Plan) : Plan[i] # q
    /\ store = FALSE

InitStub == Start([v \in Variants |-> {DefaultOps}], {0, 1}, MaxCycles, 0) /\ FixedAnswer

SpecStub == InitStub /\ [][Next]_vars

\* The increments one cycle makes to the counter of call q against the
\* stub.
PerCycle(q) ==
    IF \A i \in 1..Len(Plan) : Plan[i] # q THEN 0
    ELSE IF variant = "svc" \/ stub[q] = {NoErr} THEN 1 ELSE 0

\* The cycles that have got the answer to call q.
Past(q) ==
    returned + LiveAt({pc \in {r.pc : r \in Live} :
                          \E i \in 1..DoneAt(pc) : Plan[i] = q})

\* C12: against stubs of fixed behaviour each action counter stands, in
\* every state of every interleaving, at the increments of one cycle times
\* the cycles that are past the counter's call; when the N cycles have all
\* returned it stands at N times the increments of one cycle.
C12_NTimesPerCycle ==
    \A q \in Calls :
        /\ OperationCount[LabelOf(q)] = PerCycle(q) * Past(q)
        /\ AllReturned => OperationCount[LabelOf(q)] = returned * PerCycle(q)

\* All cycles of a pod-build run have returned; a counter whose call
\* succeeds stands at their number, one whose call fails at zero.
C12_Witness ==
    /\ variant = "pod" /\ AllReturned /\ returned = MaxCycles
    /\ \E q \in Calls : PerCycle(q) = 1 /\ OperationCount[LabelOf(q)] = MaxCycles
    /\ \E q \in Calls : stub[q] = {"api error"} /\ OperationCount[LabelOf(q)] = 0

C13_BeforeTheLoop ==
    main \in {"fatal", "panic"} =>
        /\ ticker = 0 /\ ticks = 0 /\ launched = 0 /\ cycles = EmptyBag
        /\ NoMetrics

C13_Step ==
    /\ main' = "fatal" /\ main # "fatal" =>
           \/ main = "validate" /\ ops.num <= 0
           \/ main = "getAPIConn"
    /\ main' = "panic" /\ main # "panic" =>
           main = "newTicker" /\ TickerPeriod(ops) <= 0
    /\ main = "validate" /\ ops.num <= 0 => main' \in {"validate", "fatal"}
    /\ main = "running" => main' \in {"running", "stopped"}
    /\ Left # {} => main = "running" /\ main' = "running"

C14_Original ==
    [][\A q \in Deletes \cup {<<"create", "pod">>} :
         requests'[q] = requests[q] + 1 =>
            \A r \in Arrived :
                r.err # NoErr => OperationCount'[LabelOf(q)] = OperationCount[LabelOf(q)]]_vars

\* --------------------------------------------------------------- C15
\* An API server that keeps its objects, a resolver that serves them, a
\* generator with two strings.
KeptObjects ==
    /\ names = RandStrings
    /\ oracle = {[err |-> NoErr, ips |-> <<ip>>], [err |-> "no such host", ips |-> <<>>]}
    /\ stub = [q \in Calls |-> ApiResults]
    /\ store = TRUE

InitStore == Start([v \in Variants |-> {DefaultOps}], {1}, MaxCycles, 0) /\ KeptObjects

SpecStore == InitStore /\ [][Next]_vars

Kinds == {q[2] : q \in Calls}

\* The objects a goroutine names.
Named(r) == {[kind |-> k, namespace |-> namespace, name |-> r.rando] : k \in Kinds}

C15_OneName ==
    /\ \A r \in Live :
          /\ r.rando \in names
          /\ r.target = IF r.pc = FirstCall THEN NoName ELSE r.rando
    /\ \A obj \in cluster : obj.namespace = namespace /\ obj.name \in names

C15_Step ==
    /\ \A r \in Left : \A n \in Arrived :
          /\ n.rando = r.rando
          /\ n.target = r.rando \/ (n.target = NoName /\ n = r)
          /\ (cluster' \ cluster) \cup (cluster \ cluster') \subseteq Named(r)
    /\ Left = {} => cluster' = cluster /\ \A n \in Arrived : n.target = NoName
    /\ UNCHANGED <<namespace, names>>

\* C15: a goroutine's name is given at its start and never changes; every
\* request it sends, create, lookup or delete, carries that name; the
\* objects its calls add to or take from the API server's objects are
\* objects of that name in the configured namespace.
C15_SingleIdentity == []C15_OneName /\ [][C15_Step]_vars

\* A cycle has polled for the absence of its name, whose objects the API
\* server still holds, and a cycle of another name has polled for the
\* presence of its own, of which the API server holds no object.
C15_Witness ==
    \E r \in Live : \E n \in Live :
        /\ r.rando # n.rando
        /\ r.pc = "loopDelete" /\ r.polls > 0
        /\ n.pc = "loopAdd" /\ n.polls > 0
        /\ cluster # {} /\ \A obj \in cluster : obj.name = r.rando

\* --------------------------------------------------------------- C18
\* The step in which the answer to a goroutine's last delete arrives.
LastDelete(r, n) == r.pc = "deleteService" /\ n.pc = "startDelete"

\* All deletes of the goroutine succeeded: the pod build's first delete
\* left its error in err, where the second found it.
DeletesSucceeded(r, n) == n.err = NoErr /\ (variant = "pod" => r.err = NoErr)

C18_Step ==
    \A r \in Left : \A n \in Arrived :
        /\ LastDelete(r, n) /\ DeletesSucceeded(r, n) /\ taken[r.rando] = 1 =>
               Named(r) \cap cluster' = {}
        /\ Phase(r.pc) >= 4 => cluster' = cluster

C18_Covered ==
    /\ \A obj \in cluster : taken[obj.name] >= 1
    /\ \A r \in Live :
          Phase(r.pc) >= 4 =>
              \A i \in Issued(r, Creates) :
                  \E j \in Issued(r, Deletes) :
                      LET made == [kind |-> r.calls[i][2], namespace |-> namespace,
                                   name |-> r.rando]
                          gone == [kind |-> r.calls[j][2], namespace |-> namespace,
                                   name |-> r.rando]
                      IN  made \in {gone} \cup Dependents(gone)

\* C18: every kind of object a goroutine creates is the kind of one of its
\* delete calls or a dependent of it; when the answer to the last delete
\* of a goroutine whose name no other goroutine was given arrives and all
\* its deletes succeeded, the API server holds no object of that name,
\* whichever of its creates had succeeded, and nothing the goroutine does
\* from there to its end adds an object.
C18_NothingLeft == []C18_Covered /\ [][C18_Step]_vars

\* A goroutine's deletes have all succeeded and no object of its name is
\* left, while the API server holds the objects of another name.
C18_Witness ==
    \E n \in Live :
        /\ n.pc = "startDelete" /\ n.err = NoErr /\ taken[n.rando] = 1
        /\ Named(n) \cap cluster = {}
        /\ cluster # {}
        /\ OperationCount[<<"service", "delete">>] = 1
        /\ variant = "pod" => OperationCount[<<"pod", "delete">>] = 1

\* --------------------------------------------------------------- C17
C17_Elapsed ==
    \A r \in Live :
        /\ r.elapsed >= 0
        /\ r.verified => r.elapsed < timeout
        /\ r.pc \in RecordPcs /\ r.elapsed >= timeout => ~r.verified

C17_Step ==
    \A a \in ActionNames :
        /\ ValidationDuration'[a].count = ValidationDuration[a].count + 1 =>
               LET d == ValidationDuration'[a].sum - ValidationDuration[a].sum
               IN  0 <= d /\ d < timeout
        /\ \A r \in Left :
               r.pc = RecordPc(a) /\ r.elapsed >= timeout =>
                   /\ ValidationFailCount'[a] = ValidationFailCount[a] + 1
                   /\ ValidationDuration'[a] = ValidationDuration[a]

\* C17: every duration added to the histogram is at least zero and less
\* than the timeout; a phase whose elapsed has reached the timeout is
\* recorded as a failure and adds no observation.
C17_ObservedBelowTimeout == []C17_Elapsed /\ [][C17_Step]_vars

\* A cycle's presence was observed after one second, with a timeout of
\* two, and its absence verification ran into the timeout.
C17_Witness ==
    /\ timeout = 2 /\ returned = 1
    /\ ValidationDuration["add"] = [count |-> 1, sum |-> 1]
    /\ ValidationFailCount["delete"] = 1

\* --------------------------------------------------------------- C16
\* The answers that end neither loop.
NeverConverging == {r \in LookupResults : ~PresencePod(r) /\ ~Absence(r)}

\* Any timeout, one tick, a stub API; the resolver answers anything or
\* never gives a converging answer.
InitLive ==
    /\ Start([v \in Variants |-> {DefaultOps}], Timeouts, 1, MaxLatency)
    /\ names = {"kubernoisy-a"}
    /\ oracle \in {LookupResults, NeverConverging}
    /\ stub = [q \in Calls |-> ApiResults]
    /\ store = FALSE

\* Every call and lookup of a goroutine returns and the goroutine goes on:
\* while the process runs, a goroutine that can take a step takes one.
SpecLive == InitLive /\ [][Next]_vars /\ WF_vars(\E cyc \in Live : Cycle(cyc))

LoopPcs == {"loopAdd", "loopDelete"}

C16_Ends ==
    /\ \A r \in Live : r.pc \in RecordPcs => r.verified \/ r.t >= timeout
    /\ oracle = NeverConverging =>
          /\ \A r \in Live : ~r.verified
          /\ \A a \in ActionNames :
                /\ ValidationDuration[a].count = 0
                /\ ValidationFailCount[a] = Finished(a)

C16_Step ==
    \A r \in Left : \A n \in Arrived :
        r.pc \in LoopPcs =>
            IF r.t >= timeout
            THEN n.pc \in RecordPcs /\ ~n.verified /\ n.polls = r.polls
            ELSE n.polls = r.polls + 1 /\ (n.pc \in RecordPcs <=> n.verified)

C16_Completes == launched > 0 ~> (main = "stopped" \/ returned = launched)

\* C16: unless the process is stopped, a launched cycle returns.  A loop
\* at whose check the time since its start has reached the timeout ends
\* there, unverified and without another poll; at any other check it
\* polls, and ends only if the answer converges.  Against a resolver that
\* never gives a converging answer no phase is verified and every ended
\* phase has made exactly one failure increment.
C16_EveryCycleEnds == C16_Completes /\ []C16_Ends /\ [][C16_Step]_vars

\* Against a resolver that never converges, with a positive timeout, the
\* cycle has returned with one failure counted for each phase.
C16_Witness ==
    /\ oracle = NeverConverging /\ timeout >= 1
    /\ returned = 1 /\ cycles = EmptyBag /\ main = "running"
    /\ \A a \in ActionNames : ValidationFailCount[a] = 1
====
